---------------------------- MODULE Spec2Model ----------------------------
(***************************************************************************)
(* Model of scripts/esi_query.py: the colony status derivation             *)
(* (parse_pi_status, estimate_storage_fill_pct, parse_utc_timestamp,       *)
(* resolve_pi_product_name) and the orchestration around it                *)
(* (get_pi_status, esi_request, esi_request_all_pages).                    *)
(*                                                                         *)
(* Encoding of Python values.  A scalar JSON value is a record [t, v]:     *)
(*   t = "none"   None (also what dict.get returns for a missing key)      *)
(*   t = "int"    the int v                                                *)
(*   t = "bool"   True (v = 1) or False (v = 0); a bool IS an int          *)
(*   t = "float"  the float v.0                                            *)
(*   t = "str"    the string StrText(v)                                    *)
(*   t = "list"   a list of v elements (unhashable)                        *)
(* A float produced by round(x, 2) is [t |-> "f2", v |-> hundredths].      *)
(* Instants and durations are whole seconds.                               *)
(***************************************************************************)
EXTENDS Integers, Sequences, FiniteSets, TLC

VARIABLES
    planets_data,     \* argument of parse_pi_status
    planet_details,   \* argument of parse_pi_status
    now,              \* datetime.now(timezone.utc) read by parse_pi_status
    parse_out,        \* outcome of the parse_pi_status call
    est_pins,         \* argument of estimate_storage_fill_pct
    est_out,          \* outcome of the estimate_storage_fill_pct call
    pc,               \* get_pi_status: position
    st                \* get_pi_status: locals

vars == <<planets_data, planet_details, now, parse_out, est_pins, est_out, pc, st>>

----------------------------------------------------------------------------
(* Bounds of the model. *)

MaxPins == 3
MaxRoutes == 3
MaxPlanets == 2
MaxRetries == 1
MaxPages == 2

----------------------------------------------------------------------------
(* Python values. *)

None == [t |-> "none", v |-> 0]
PyInt(n) == [t |-> "int", v |-> n]
PyTrue == [t |-> "bool", v |-> 1]
PyFloat(n) == [t |-> "float", v |-> n]
PyStrVal(k) == [t |-> "str", v |-> k]
PyList(n) == [t |-> "list", v |-> n]
F2(h) == [t |-> "f2", v |-> h]

StrText(k) == IF k = 0 THEN "" ELSE "s" \o ToString(k)

\* isinstance(x, int): bool is a subclass of int
IsInt(x) == x.t \in {"int", "bool"}

\* isinstance(x, (int, float))
IsNumber(x) == x.t \in {"int", "bool", "float"}

\* hash(x) is defined: lists (and dicts) are unhashable
Hashable(x) == x.t # "list"

\* x == y in Python, for hashable scalars: numbers compare by value across
\* int, bool and float
PyEq(x, y) ==
    IF IsNumber(x) /\ IsNumber(y) THEN x.v = y.v
    ELSE x = y

\* str(x), f"{x}"
PyStr(x) ==
    CASE x.t = "none" -> "None"
      [] x.t = "int" -> ToString(x.v)
      [] x.t = "bool" -> (IF x.v = 1 THEN "True" ELSE "False")
      [] x.t = "float" -> ToString(x.v) \o ".0"
      [] x.t = "str" -> StrText(x.v)
      [] OTHER -> "[...]"

\* repr of a float that round(x, 2) returned: shortest decimal form
FmtF2(h) ==
    LET a == IF h < 0 THEN -h ELSE h
        whole == a \div 100
        frac == a % 100
    IN  (IF h < 0 THEN "-" ELSE "") \o ToString(whole) \o "." \o
        (IF frac % 10 = 0 THEN ToString(frac \div 10)
         ELSE IF frac < 10 THEN "0" \o ToString(frac)
         ELSE ToString(frac))

\* round(n / d, 0) for d > 0 as an integer: nearest, an exact tie to even.
\* (On a decimal tie Python rounds by the binary value of the float, up or
\* down; the payloads below produce no tie.)
RoundDiv(n, d) ==
    LET q == n \div d
        r == n % d
    IN  IF 2 * r < d THEN q
        ELSE IF 2 * r > d THEN q + 1
        ELSE IF q % 2 = 0 THEN q ELSE q + 1

RECURSIVE JoinWith(_, _)
\* sep.join(strs)
JoinWith(sep, strs) ==
    IF strs = <<>> THEN ""
    ELSE IF Len(strs) = 1 THEN strs[1]
    ELSE strs[1] \o sep \o JoinWith(sep, Tail(strs))

RECURSIVE Flatten(_)
\* concatenation of a sequence of sequences
Flatten(ss) == IF ss = <<>> THEN <<>> ELSE ss[1] \o Flatten(Tail(ss))

Range(s) == {s[i] : i \in DOMAIN s}

\* all sequences over S of length 0..n
SeqsUpTo(S, n) == UNION {[1..k -> S] : k \in 0..n}

----------------------------------------------------------------------------
(* Static tables. *)

PI_PRODUCTS ==
    (2393 :> "Aqueous Liquids" @@ 2396 :> "Base Metals" @@
     2397 :> "Carbon Compounds" @@ 2398 :> "Complex Organisms" @@
     2401 :> "Heavy Metals" @@ 2389 :> "Bacteria" @@ 2390 :> "Biofuels" @@
     2399 :> "Industrial Fibers" @@ 3779 :> "Biomass" @@
     2400 :> "Precious Metals" @@ 2317 :> "Water" @@ 9828 :> "Silicon" @@
     44 :> "Enriched Uranium" @@ 3689 :> "Mechanical Parts" @@
     9836 :> "Consumer Electronics" @@ 9832 :> "Construction Blocks" @@
     3683 :> "Coolant" @@ 2867 :> "Broadcast Node" @@
     2868 :> "Camera Drones" @@ 2869 :> "Synthetic Synapses" @@
     2870 :> "Gel-Matrix Biopaste" @@ 2871 :> "Hazmat Detection Systems" @@
     2872 :> "Integrity Response Drones" @@
     2873 :> "Organic Mortar Applicators" @@ 2874 :> "Nano-Factory" @@
     2875 :> "Sterile Conduits")

PI_STORAGE_CAPACITY_UNITS == (2524 :> 10000 @@ 2544 :> 10000 @@ 2256 :> 12000)

\* d.get(key) on a dict keyed by ints: a hit needs a number equal to a key
\* (hash(True) = hash(1), hash(2544.0) = hash(2544))
HasKey(table, x) == IsNumber(x) /\ x.v \in DOMAIN table

----------------------------------------------------------------------------
(* parse_utc_timestamp and resolve_pi_product_name. *)

\* An expiry_time value:
\*   k = "none"    missing or null
\*   k = "falsy"   a falsy non-None value ("", 0, [], False)
\*   k = "bad"     a non-empty string that datetime.fromisoformat rejects
\*   k = "ts"      an RFC3339 string: wall-clock second `wall` in zone `zone`
\*   k = "other"   a truthy value that is not a string (12345, [1], True)
ExpNone == [k |-> "none", wall |-> 0, zone |-> "Z"]
ExpFalsy == [k |-> "falsy", wall |-> 0, zone |-> "Z"]
ExpBad == [k |-> "bad", wall |-> 0, zone |-> "Z"]
ExpOther == [k |-> "other", wall |-> 0, zone |-> "Z"]
ExpTs(w, z) == [k |-> "ts", wall |-> w, zone |-> z]

\* UTC offset, in seconds, of a zone designator; "Z" is rewritten to "+00:00"
ZoneOffset(z) ==
    LET fixed == IF z = "Z" THEN "+00:00" ELSE z
    IN  CASE fixed = "+00:00" -> 0
          [] fixed = "+01:00" -> 3600
          [] OTHER -> 0

\* value.replace(...) on a truthy non-string: AttributeError, not caught
ParseTimestampRaises(value) == value.k = "other"

\* the parsed instant: [some |-> FALSE] is None
parse_utc_timestamp(value) ==
    IF value.k \in {"none", "falsy"} THEN [some |-> FALSE, at |-> 0]
    ELSE IF value.k = "ts" THEN [some |-> TRUE, at |-> value.wall - ZoneOffset(value.zone)]
    ELSE [some |-> FALSE, at |-> 0]

\* PI_PRODUCTS.get(type_id, ...) hashes type_id: TypeError on a list
ResolveNameRaises(type_id) == type_id.t # "none" /\ ~Hashable(type_id)

resolve_pi_product_name(type_id) ==
    IF type_id.t = "none" THEN "unknown"
    ELSE IF HasKey(PI_PRODUCTS, type_id) THEN PI_PRODUCTS[type_id.v]
    ELSE "type_id:" \o PyStr(type_id)

----------------------------------------------------------------------------
(* Pins, content items, routes.                                            *)
(* A pins / routes / contents / planets_data value is [k, l]:              *)
(*   k = "list"     a list with elements l                                 *)
(*   k = "dict"     a dict or string: iterating yields l, none a mapping   *)
(*   k = "noniter"  None or a number: iterating raises TypeError           *)

ListOf(l) == [k |-> "list", l |-> l]
NonIter == [k |-> "noniter", l |-> <<>>]

Item(amount) == [shape |-> "dict", amount |-> amount]
NonDictItem == [shape |-> "other", amount |-> None]

\* contents: k = "none" (missing or null), "list", "falsy" (0, "", {}),
\* "other" (a truthy non-list: a dict, a string, a number)
NoContents == [k |-> "none", l |-> <<>>]

BasePin ==
    [shape |-> "dict", pin_id |-> None, type_id |-> None,
     extractor |-> [k |-> "none", product_type_id |-> None],
     expiry_time |-> ExpNone,
     has_factory_details |-> FALSE, has_schematic |-> FALSE,
     schematic_id |-> None, contents |-> NoContents]

NonDictPin == [BasePin EXCEPT !.shape = "other"]

Route(src, dst, ct) ==
    [shape |-> "dict", source_pin_id |-> src, destination_pin_id |-> dst,
     content_type_id |-> ct]

NonDictRoute == [shape |-> "other", source_pin_id |-> None,
                 destination_pin_id |-> None, content_type_id |-> None]

----------------------------------------------------------------------------
(* estimate_storage_fill_pct. *)

\* the pins the loop gets past lines 277-285 for
HasCapacity(pin) == pin.shape = "dict" /\ HasKey(PI_STORAGE_CAPACITY_UNITS, pin.type_id)

ContentsIsList(pin) == pin.contents.k \in {"none", "falsy", "list"}

RECURSIVE SumAmounts(_)
\* total_amount over the items of a contents list
SumAmounts(items) ==
    IF items = <<>> THEN 0
    ELSE (IF items[1].shape = "dict" /\ IsNumber(items[1].amount)
          THEN items[1].amount.v ELSE 0) + SumAmounts(Tail(items))

Min2(a, b) == IF a <= b THEN a ELSE b

\* min(100.0, round(total / capacity * 100, 2)), in hundredths of a percent
PinFill(pin) ==
    Min2(10000, RoundDiv(SumAmounts(pin.contents.l) * 10000,
                         PI_STORAGE_CAPACITY_UNITS[pin.type_id.v]))

\* PI_STORAGE_CAPACITY_UNITS.get(pin_type_id) hashes the type id
EstimateRaises(pins) ==
    \E i \in DOMAIN pins : pins[i].shape = "dict" /\ ~Hashable(pins[i].type_id)

RECURSIVE MaxFill(_, _)
\* the fold of lines 276-295 over the remaining pins
MaxFill(pins, max_fill) ==
    IF pins = <<>> THEN max_fill
    ELSE LET pin == pins[1]
         IN  IF ~(HasCapacity(pin) /\ ContentsIsList(pin))
             THEN MaxFill(Tail(pins), max_fill)
             ELSE LET fill == PinFill(pin)
                  IN  IF max_fill.t = "none" \/ fill > max_fill.v
                      THEN MaxFill(Tail(pins), F2(fill))
                      ELSE MaxFill(Tail(pins), max_fill)

estimate_storage_fill_pct(pins) == MaxFill(pins, None)

----------------------------------------------------------------------------
(* parse_pi_status: the extractor loop (lines 328-355). *)

SecondsPerHundredth == 36

\* round((expiry_dt - now).total_seconds() / 3600.0, 2), in hundredths
HoursRemaining(at, t) == RoundDiv(at - t, SecondsPerHundredth)

\* status = "running" if hours_remaining > 0 else "expired"
StatusOf(hours) == IF hours > 0 THEN "running" ELSE "expired"

IsExtractorPin(pin) == pin.shape = "dict" /\ pin.extractor.k = "dict"

\* the entry appended at lines 344-350
ExtractorEntry(pin, t) ==
    LET expiry_dt == parse_utc_timestamp(pin.expiry_time)
        hours == HoursRemaining(expiry_dt.at, t)
    IN  [product |-> resolve_pi_product_name(pin.extractor.product_type_id),
         product_type_id |-> pin.extractor.product_type_id,
         expiry |-> pin.expiry_time,
         hours_remaining |-> IF expiry_dt.some THEN F2(hours) ELSE None,
         status |-> IF expiry_dt.some THEN StatusOf(hours) ELSE "idle"]

AttentionHours == 6

\* the threshold taken as exclusive
ExpiresSoonStrict(hours) == hours < AttentionHours * 100

\* hours_remaining <= 6
ExpiresSoon(hours) == hours <= AttentionHours * 100

\* lines 352-355: the reasons one entry appends
ExtractorReasons(entry) ==
    IF entry.status = "expired" THEN <<"Extractor already expired">>
    ELSE IF entry.hours_remaining.t # "none" /\ ExpiresSoon(entry.hours_remaining.v)
         THEN <<"Extractor expires in " \o FmtF2(entry.hours_remaining.v) \o "h">>
         ELSE <<>>

ExtractorPins(pins) == SelectSeq(pins, IsExtractorPin)

Extractors(pins, t) ==
    LET ps == ExtractorPins(pins)
    IN  [i \in 1..Len(ps) |-> ExtractorEntry(ps[i], t)]

ExtractorLoopRaises(pins) ==
    \E i \in DOMAIN pins :
        /\ IsExtractorPin(pins[i])
        /\ \/ ParseTimestampRaises(pins[i].expiry_time)
           \/ ResolveNameRaises(pins[i].extractor.product_type_id)

----------------------------------------------------------------------------
(* parse_pi_status: the route scan (lines 357-368) and the factory loop    *)
(* (lines 370-386).  A dict keyed by pin id is a sequence of entries in    *)
(* insertion order; a key matches any number equal to it.                  *)

\* a dict of lists: its entries in insertion order
EmptyDict == <<>>

\* the position of the key of d equal to key, 0 when there is none
KeyIndex(d, key) ==
    IF \E i \in DOMAIN d : PyEq(d[i].key, key)
    THEN CHOOSE i \in DOMAIN d : PyEq(d[i].key, key)
    ELSE 0

\* d.setdefault(key, []).append(x)
SetdefaultAppend(d, key, x) ==
    IF KeyIndex(d, key) # 0
    THEN [d EXCEPT ![KeyIndex(d, key)].vals = Append(@, x)]
    ELSE Append(d, [key |-> key, vals |-> <<x>>])

\* d.get(key, [])
GetOrEmpty(d, key) ==
    IF KeyIndex(d, key) # 0 THEN d[KeyIndex(d, key)].vals ELSE <<>>

\* one iteration of the loop of line 359
ScanRoute(maps, route) ==
    IF route.shape # "dict" THEN maps
    ELSE LET source_pin == route.source_pin_id
             destination_pin == route.destination_pin_id
             content_type == route.content_type_id
             outgoing ==
                 IF IsInt(source_pin) /\ IsInt(content_type)
                 THEN SetdefaultAppend(maps.outgoing_by_pin, source_pin, content_type)
                 ELSE maps.outgoing_by_pin
             incoming ==
                 IF IsInt(destination_pin) /\ IsInt(content_type)
                 THEN SetdefaultAppend(maps.incoming_by_pin, destination_pin,
                                       content_type)
                 ELSE maps.incoming_by_pin
         IN  [incoming_by_pin |-> incoming, outgoing_by_pin |-> outgoing]

RECURSIVE ScanRoutes(_)
\* incoming_by_pin and outgoing_by_pin after the loop of line 359
ScanRoutes(routes) ==
    IF routes = <<>>
    THEN [incoming_by_pin |-> EmptyDict, outgoing_by_pin |-> EmptyDict]
    ELSE ScanRoute(ScanRoutes(SubSeq(routes, 1, Len(routes) - 1)),
                   routes[Len(routes)])

\* outgoing_by_pin.get(pin_id, []): content types appended under a key
\* equal to pin_id, in route order
OutgoingOf(routes, pin_id) ==
    GetOrEmpty(ScanRoutes(routes).outgoing_by_pin, pin_id)

\* incoming_by_pin.get(pin_id, [])
IncomingOf(routes, pin_id) ==
    GetOrEmpty(ScanRoutes(routes).incoming_by_pin, pin_id)

RECURSIVE PySetOf(_, _)
\* set(xs) as the elements kept, in insertion order: an element equal to one
\* already in the set is dropped
PySetOf(xs, kept) ==
    IF xs = <<>> THEN kept
    ELSE IF \E i \in DOMAIN kept : PyEq(kept[i], xs[1])
         THEN PySetOf(Tail(xs), kept)
         ELSE PySetOf(Tail(xs), Append(kept, xs[1]))

RECURSIVE SortedByValue(_)
\* sorted(...) of pairwise unequal numbers: ascending
SortedByValue(xs) ==
    IF xs = <<>> THEN <<>>
    ELSE LET m == CHOOSE i \in DOMAIN xs : \A j \in DOMAIN xs : xs[i].v <= xs[j].v
         IN  <<xs[m]>> \o SortedByValue([k \in 1..(Len(xs) - 1) |->
                                          IF k < m THEN xs[k] ELSE xs[k + 1]])

\* sorted(set(xs))
SortedSet(xs) == SortedByValue(PySetOf(xs, <<>>))

\* ", ".join(resolve_pi_product_name(tid) for tid in types) or "unknown"
RenderTypes(types) ==
    IF types # <<>>
    THEN JoinWith(", ", [i \in 1..Len(types) |-> resolve_pi_product_name(types[i])])
    ELSE "unknown"

IsFactoryPin(pin) ==
    /\ pin.shape = "dict"
    /\ (pin.has_factory_details \/ pin.has_schematic)
    /\ IsInt(pin.pin_id)

FactoryEntry(pin, routes) ==
    [input |-> RenderTypes(SortedSet(IncomingOf(routes, pin.pin_id))),
     output |-> RenderTypes(SortedSet(OutgoingOf(routes, pin.pin_id))),
     schematic |-> IF pin.schematic_id.t # "none"
                   THEN "Schematic " \o PyStr(pin.schematic_id) ELSE "unknown"]

Factories(pins, routes) ==
    LET ps == SelectSeq(pins, IsFactoryPin)
    IN  [i \in 1..Len(ps) |-> FactoryEntry(ps[i], routes)]

----------------------------------------------------------------------------
(* parse_pi_status: details_map (lines 301-311) and the record of one      *)
(* colony (lines 316-404).                                                 *)

\* A detail: pins and routes are [k, l] values, k = "absent" when the key is
\* missing; has_name says whether the key _planet_name is present
AbsentField == [k |-> "absent", l |-> <<>>]

Detail(pins, routes) ==
    [shape |-> "dict", pins |-> pins, routes |-> routes,
     has_name |-> FALSE, name |-> "", has_character |-> FALSE, character |-> ""]

EmptyDetail == Detail(AbsentField, AbsentField)

NonDictDetail == [EmptyDetail EXCEPT !.shape = "other"]

PlanetEntry(id) ==
    [shape |-> "dict", planet_id |-> id, planet_type |-> PyStrVal(1),
     solar_system_id |-> PyInt(30000142)]

NonDictPlanet == [shape |-> "other", planet_id |-> None, planet_type |-> None,
                  solar_system_id |-> None]

\* planet_details as a dict with string keys: [k |-> "dict", m |-> function];
\* as a list of items [shape, planet_id, detail], detail being the item's
\* "detail" dict or else the item itself: [k |-> "list", l |-> items];
\* anything else: [k |-> "other"]
DetailsDict(m) == [k |-> "dict", m |-> m, l |-> <<>>]
DetailsList(l) == [k |-> "list", m |-> <<>>, l |-> l]
DetailsOther == [k |-> "other", m |-> <<>>, l |-> <<>>]

DetailItem(id, detail) == [shape |-> "dict", planet_id |-> id, detail |-> detail]

RECURSIVE DetailsFromList(_, _)
\* lines 305-311: later items overwrite earlier ones under the same key
DetailsFromList(items, acc) ==
    IF items = <<>> THEN acc
    ELSE LET item == items[1]
         IN  IF item.shape = "dict" /\ item.planet_id.t # "none"
             THEN DetailsFromList(Tail(items),
                      [key \in (DOMAIN acc) \cup {PyStr(item.planet_id)} |->
                          IF key = PyStr(item.planet_id) THEN item.detail ELSE acc[key]])
             ELSE DetailsFromList(Tail(items), acc)

\* details_map: string key -> dict
DetailsMap(details) ==
    IF details.k = "dict"
    THEN [key \in {x \in DOMAIN details.m : details.m[x].shape = "dict"} |-> details.m[key]]
    ELSE IF details.k = "list" THEN DetailsFromList(details.l, <<>>)
    ELSE <<>>

\* details_map.get(str(planet_id), {})
DetailOf(details_map, planet_id) ==
    IF PyStr(planet_id) \in DOMAIN details_map
    THEN details_map[PyStr(planet_id)] ELSE EmptyDetail

\* detail.get("pins", []) / detail.get("routes", []), as the elements a for
\* loop visits
Elems(field) == field.l

RECURSIVE Dedup(_, _)
\* list(dict.fromkeys(xs)): first occurrences, in order
Dedup(xs, kept) ==
    IF xs = <<>> THEN kept
    ELSE IF xs[1] \in Range(kept) THEN Dedup(Tail(xs), kept)
         ELSE Dedup(Tail(xs), Append(kept, xs[1]))

StorageThreshold == 80

\* the threshold taken as exclusive
StorageTriggersStrict(fill) == fill.t # "none" /\ fill.v > StorageThreshold * 100

\* storage_fill_pct is not None and storage_fill_pct >= 80
StorageTriggers(fill) == fill.t # "none" /\ fill.v >= StorageThreshold * 100

StorageReasons(fill) ==
    IF StorageTriggers(fill)
    THEN <<"Storage/Launchpad at " \o FmtF2(fill.v) \o "%">>
    ELSE <<>>

\* attention_reasons when the extractor loop is over (line 356)
ReasonsAfterPins(pins, t) ==
    LET es == Extractors(pins, t)
    IN  Flatten([i \in 1..Len(es) |-> ExtractorReasons(es[i])])

\* attention_reasons at line 391
AttentionReasons(pins, t) ==
    ReasonsAfterPins(pins, t) \o StorageReasons(estimate_storage_fill_pct(pins))

Reverse(xs) == [k \in 1..Len(xs) |-> xs[Len(xs) + 1 - k]]

\* de-duplication that keeps the last occurrence of a reason, not the first
UniqueReasonsKeepLast(reasons) == Reverse(Dedup(Reverse(reasons), <<>>))

UniqueReasons(reasons) == Dedup(reasons, <<>>)

\* attention only when more than one reason is left
NeedsAttentionSeveral(unique_reasons) == Len(unique_reasons) > 1

NeedsAttention(unique_reasons) == unique_reasons # <<>>

ActionRequired(unique_reasons) ==
    IF unique_reasons # <<>> THEN JoinWith("; ", unique_reasons) ELSE "none"

\* the dict appended at lines 393-404
ColonyRecord(planet, detail, t) ==
    LET pins == Elems(detail.pins)
        routes == Elems(detail.routes)
        unique_reasons == UniqueReasons(AttentionReasons(pins, t))
    IN  [planet_id |-> planet.planet_id,
         planet_name |-> IF detail.has_name THEN detail.name
                         ELSE "Planet " \o PyStr(planet.planet_id),
         planet_type |-> planet.planet_type,
         solar_system_id |-> planet.solar_system_id,
         character |-> IF detail.has_character THEN detail.character ELSE "unknown",
         extractors |-> Extractors(pins, t),
         storage_fill_pct |-> estimate_storage_fill_pct(pins),
         factories |-> Factories(pins, routes),
         needs_attention |-> NeedsAttention(unique_reasons),
         action_required |-> ActionRequired(unique_reasons)]

\* the locals of one iteration of the loop of line 316, kept beside the record
ColonyLocals(detail, t) ==
    LET pins == Elems(detail.pins)
    IN  [after_pins |-> ReasonsAfterPins(pins, t),
         attention_reasons |-> AttentionReasons(pins, t),
         unique_reasons |-> UniqueReasons(AttentionReasons(pins, t)),
         incoming_by_pin |-> ScanRoutes(Elems(detail.routes)).incoming_by_pin,
         outgoing_by_pin |-> ScanRoutes(Elems(detail.routes)).outgoing_by_pin]

\* one iteration of the loop of line 316 raises
ColonyRaises(detail) ==
    \/ detail.pins.k = "noniter"
    \/ ExtractorLoopRaises(Elems(detail.pins))
    \/ detail.routes.k = "noniter"
    \/ EstimateRaises(Elems(detail.pins))

WellFormed(planets) == SelectSeq(planets, LAMBDA p : p.shape = "dict")

\* an exception escapes parse_pi_status
ParseRaises(planets, details) ==
    \/ planets.k = "noniter"
    \/ \E i \in DOMAIN planets.l :
          /\ planets.l[i].shape = "dict"
          /\ ColonyRaises(DetailOf(DetailsMap(details), planets.l[i].planet_id))

\* the list parse_pi_status returns
ParsedRecords(planets, details, t) ==
    LET ps == WellFormed(planets.l)
        dm == DetailsMap(details)
    IN  [i \in 1..Len(ps) |-> ColonyRecord(ps[i], DetailOf(dm, ps[i].planet_id), t)]

ParsedLocals(planets, details, t) ==
    LET ps == WellFormed(planets.l)
        dm == DetailsMap(details)
    IN  [i \in 1..Len(ps) |-> ColonyLocals(DetailOf(dm, ps[i].planet_id), t)]

Pending == [st |-> "pending", recs |-> <<>>, locals |-> <<>>]

\* the outcome of parse_pi_status(planets, details) evaluated at instant t
parse_pi_status(planets, details, t) ==
    IF ParseRaises(planets, details)
    THEN [st |-> "raised", recs |-> <<>>, locals |-> <<>>]
    ELSE [st |-> "returned", recs |-> ParsedRecords(planets, details, t),
          locals |-> ParsedLocals(planets, details, t)]

----------------------------------------------------------------------------
(* Inputs of the pure functions: bounded families of payloads. *)

ExtractorPin(type_id, expiry) ==
    [BasePin EXCEPT !.extractor = [k |-> "dict", product_type_id |-> type_id],
                    !.expiry_time = expiry]

StoragePin(type_id, contents) ==
    [BasePin EXCEPT !.type_id = type_id, !.contents = contents]

FactoryPin(pin_id, schematic) ==
    [BasePin EXCEPT !.pin_id = pin_id, !.has_schematic = TRUE,
                    !.schematic_id = schematic]

\* evaluation instants
Nows == {0, 40}

\* expiry strings around the evaluation instants, around six hours later,
\* and in the past; 3600 at +01:00 is the instant 0
Expiries ==
    {ExpNone, ExpFalsy, ExpBad, ExpOther} \cup
    {ExpTs(w, "Z") : w \in {-3600, 0, 12, 21600, 21640}} \cup
    {ExpTs(3600, "+01:00")}

ExtractorPinSet ==
    {ExtractorPin(PyInt(2393), e) : e \in Expiries} \cup
    {ExtractorPin(None, ExpTs(-3600, "Z")), ExtractorPin(PyList(1), ExpNone),
     [BasePin EXCEPT !.extractor = [k |-> "other", product_type_id |-> None],
                     !.expiry_time = ExpTs(-3600, "Z")]}

ContentsSet ==
    {NoContents,
     [k |-> "falsy", l |-> <<>>],
     [k |-> "other", l |-> <<>>],
     ListOf(<<>>),
     ListOf(<<Item(PyInt(7999))>>),
     ListOf(<<Item(PyInt(8000))>>),
     ListOf(<<Item(PyInt(4000)), Item(PyStrVal(1)), Item(PyInt(5000))>>),
     ListOf(<<NonDictItem, Item(PyInt(12500)), Item(None)>>),
     ListOf(<<Item(PyInt(9600)), Item(PyTrue)>>),
     ListOf(<<Item(PyFloat(9999)), Item(PyInt(-20000))>>)}

StorageTypes == {PyInt(2544), PyInt(2256), PyInt(9999), None, PyList(1)}

StoragePinSet ==
    {StoragePin(ty, c) : ty \in StorageTypes, c \in ContentsSet} \cup {NonDictPin}

\* the storage pins mixed with the extractors
MixedStoragePins ==
    {StoragePin(PyInt(2544), ListOf(<<Item(PyInt(8000))>>)),
     StoragePin(PyInt(2256), ListOf(<<Item(PyInt(9600)), Item(PyTrue)>>)),
     StoragePin(PyInt(2544), ListOf(<<Item(PyInt(7999))>>)),
     StoragePin(PyList(1), NoContents),
     StoragePin(PyInt(9999), ListOf(<<Item(PyInt(12500))>>)),
     NonDictPin}

FactoryPinLists ==
    {<<FactoryPin(PyInt(5), PyInt(3))>>,
     <<FactoryPin(PyInt(5), None), FactoryPin(None, PyInt(4))>>,
     <<[BasePin EXCEPT !.pin_id = PyInt(9), !.has_factory_details = TRUE],
       FactoryPin(PyInt(5), PyInt(3)), NonDictPin>>}

RouteSet ==
    {Route(PyInt(1), PyInt(5), PyInt(2396)),
     Route(PyInt(2), PyInt(5), PyInt(2393)),
     Route(PyInt(5), PyInt(9), PyInt(2389)),
     Route(PyInt(1), PyInt(5), PyTrue),
     Route(PyInt(1), PyInt(5), PyInt(1)),
     Route(None, PyInt(5), PyInt(7)),
     Route(PyInt(5), PyStrVal(1), PyStrVal(2)),
     NonDictRoute}

EmptyMap == [key \in {} |-> EmptyDetail]

OneColony(detail) ==
    [planets |-> ListOf(<<PlanetEntry(PyInt(1))>>),
     details |-> DetailsDict("1" :> detail)]

ExpiredColony ==
    Detail(ListOf(<<ExtractorPin(PyInt(2393), ExpTs(-3600, "Z"))>>), ListOf(<<>>))

NamedColony == [EmptyDetail EXCEPT !.has_name = TRUE, !.name = "Jita IV"]

\* colonies of extractor and storage pins
PinInputs ==
    {OneColony(Detail(ListOf(pins), AbsentField)) :
        pins \in SeqsUpTo(ExtractorPinSet \cup MixedStoragePins, MaxPins)}

\* colonies of factory pins and routes
RouteInputs ==
    {OneColony(Detail(ListOf(pins), ListOf(routes))) :
        pins \in FactoryPinLists, routes \in SeqsUpTo(RouteSet, MaxRoutes)}

\* pins or routes that are no list
ShapeInputs ==
    {OneColony(Detail(p, r)) :
        p \in {AbsentField, NonIter, [k |-> "dict", l |-> <<NonDictPin>>],
               ListOf(<<FactoryPin(PyInt(5), PyInt(3))>>)},
        r \in {AbsentField, NonIter, [k |-> "dict", l |-> <<NonDictRoute>>]}}

PlanetEntries ==
    {PlanetEntry(PyInt(1)), PlanetEntry(PyInt(2)), PlanetEntry(None), NonDictPlanet}

DetailsSet ==
    {DetailsDict(EmptyMap),
     DetailsDict("1" :> EmptyDetail),
     DetailsDict("1" :> NonDictDetail @@ "2" :> NamedColony),
     DetailsDict("1" :> ExpiredColony @@ "2" :> Detail(NonIter, AbsentField)),
     DetailsDict("None" :> ExpiredColony),
     DetailsList(<<DetailItem(PyInt(1), EmptyDetail), DetailItem(PyInt(1), ExpiredColony),
                   DetailItem(None, NamedColony),
                   [shape |-> "other", planet_id |-> PyInt(2), detail |-> ExpiredColony]>>),
     DetailsOther}

\* planets_data of every shape against a few planet_details
PlanetInputs ==
    {[planets |-> ps, details |-> d] :
        ps \in {NonIter, [k |-> "dict", l |-> <<NonDictPlanet>>]} \cup
               {ListOf(l) : l \in SeqsUpTo(PlanetEntries, MaxPlanets)},
        d \in DetailsSet}

ParseInputs == PinInputs \cup RouteInputs \cup ShapeInputs \cup PlanetInputs

----------------------------------------------------------------------------
(* The calls. *)

StIdle ==
    [planets |-> <<>>, page |-> 0, total_pages |-> 0, idx |-> 0,
     detail |-> EmptyDetail, details |-> EmptyMap, retries |-> 0]

Init ==
    /\ \E in \in ParseInputs :
          /\ planets_data = in.planets
          /\ planet_details = in.details
    /\ now \in Nows
    /\ parse_out = Pending
    /\ est_pins = <<>>
    /\ est_out = Pending
    /\ pc = "idle"
    /\ st = StIdle

\* parse_pi_status(planets_data, planet_details)
CallParsePiStatus ==
    /\ pc = "idle"
    /\ parse_out.st = "pending"
    /\ parse_out' = parse_pi_status(planets_data, planet_details, now)
    /\ UNCHANGED <<planets_data, planet_details, now, est_pins, est_out, pc, st>>

Next == CallParsePiStatus

Spec == Init /\ [][Next]_vars

InitEstimate ==
    /\ planets_data = ListOf(<<>>)
    /\ planet_details = DetailsOther
    /\ now = 0
    /\ parse_out = Pending
    /\ est_pins \in SeqsUpTo(StoragePinSet, MaxPins)
    /\ est_out = Pending
    /\ pc = "idle"
    /\ st = StIdle

\* estimate_storage_fill_pct(est_pins)
CallEstimateStorageFillPct ==
    /\ pc = "idle"
    /\ est_out.st = "pending"
    /\ est_out' = IF EstimateRaises(est_pins)
                  THEN [st |-> "raised", recs |-> <<>>, locals |-> <<>>]
                  ELSE [st |-> "returned", recs |-> <<estimate_storage_fill_pct(est_pins)>>,
                        locals |-> <<>>]
    /\ UNCHANGED <<planets_data, planet_details, now, parse_out, est_pins, pc, st>>

NextEstimate == CallEstimateStorageFillPct

SpecEstimate == InitEstimate /\ [][NextEstimate]_vars

----------------------------------------------------------------------------
(* get_pi_status (lines 409-427) over esi_request (lines 114-170) and      *)
(* esi_request_all_pages (lines 173-197).  pc is the request in flight or  *)
(* the step to take:                                                       *)
(*   "planets_first"  page 1 of /characters/{id}/planets/                  *)
(*   "planets_next"   a later page of it                                   *)
(*   "loop"           the head of the for loop of line 414                 *)
(*   "detail"         /characters/{id}/planets/{planet_id}/                *)
(*   "meta"           /universe/planets/{planet_id}/ (allow_404)           *)
(*   "parse"          the call of line 427                                 *)
(*   "returned"       get_pi_status returned parse_out.recs                *)
(*   "raised"         an exception escaped parse_pi_status                 *)
(*   "exited"         sys.exit(1) in esi_request                           *)

RequestPositions == {"planets_first", "planets_next", "detail", "meta"}

\* bodies of a planets page: a JSON list, or (k = "dict") a JSON object, or
\* (k = "none") null
PlanetPages ==
    {ListOf(<<>>),
     ListOf(<<PlanetEntry(PyInt(1))>>),
     ListOf(<<PlanetEntry(PyInt(1)), PlanetEntry(PyInt(2))>>),
     ListOf(<<NonDictPlanet, PlanetEntry(PyStrVal(1))>>),
     [k |-> "dict", l |-> <<PlanetEntry(None)>>],
     [k |-> "none", l |-> <<>>]}

\* bodies of a colony detail: JSON objects, or anything else
DetailBodies ==
    {EmptyDetail, ExpiredColony, NonDictDetail, Detail(NonIter, AbsentField)}

\* planet_meta.get("name"): a name, or nothing truthy
MetaNames == {"", "Jita IV"}

InitStatus ==
    /\ planets_data = ListOf(<<>>)
    /\ planet_details = DetailsOther
    /\ now \in Nows
    /\ parse_out = Pending
    /\ est_pins = <<>>
    /\ est_out = Pending
    /\ pc = "planets_first"
    /\ st = StIdle

\* line 179-186: the first page answers 200
PlanetsFirstOk ==
    /\ pc = "planets_first"
    /\ \E body \in PlanetPages, pages \in 1..MaxPages :
          LET all_results == IF body.k = "list" THEN body.l
                             ELSE IF body.k = "none" THEN <<>>
                             ELSE <<body.l[1]>>
          IN  /\ st' = [st EXCEPT !.planets = all_results, !.page = 2,
                                  !.total_pages = pages, !.retries = 0]
              /\ pc' = IF body.k = "list" /\ 2 <= pages
                       THEN "planets_next" ELSE "loop"
    /\ UNCHANGED <<planets_data, planet_details, now, parse_out, est_pins, est_out>>

\* lines 187-196: a later page answers 200
PlanetsNextOk ==
    /\ pc = "planets_next"
    /\ \E body \in PlanetPages :
          /\ st' = [st EXCEPT !.planets = IF body.k = "list" THEN @ \o body.l ELSE @,
                              !.page = @ + 1, !.retries = 0]
          /\ pc' = IF st.page + 1 <= st.total_pages THEN "planets_next" ELSE "loop"
    /\ UNCHANGED <<planets_data, planet_details, now, parse_out, est_pins, est_out>>

\* lines 414-419: the next planet, skipped unless a dict with an int id
LoopStep ==
    /\ pc = "loop"
    /\ IF st.idx + 1 > Len(st.planets)
       THEN /\ pc' = "parse"
            /\ st' = st
       ELSE LET planet == st.planets[st.idx + 1]
            IN  /\ st' = [st EXCEPT !.idx = @ + 1]
                /\ pc' = IF planet.shape = "dict" /\ IsInt(planet.planet_id)
                         THEN "detail" ELSE "loop"
    /\ UNCHANGED <<planets_data, planet_details, now, parse_out, est_pins, est_out>>

\* line 421, get_pi_planet_detail: the detail answers 200
DetailOk ==
    /\ pc = "detail"
    /\ \E body \in DetailBodies :
          st' = [st EXCEPT !.detail = IF body.shape = "dict" THEN body ELSE EmptyDetail,
                           !.retries = 0]
    /\ pc' = "meta"
    /\ UNCHANGED <<planets_data, planet_details, now, parse_out, est_pins, est_out>>

\* lines 423-425 with planet_meta.get("name") = name
StoreDetail(name) ==
    LET key == PyStr(st.planets[st.idx].planet_id)
        detail == IF name # "" THEN [st.detail EXCEPT !.has_name = TRUE, !.name = name]
                  ELSE st.detail
    IN  [st EXCEPT !.details = [k \in (DOMAIN st.details) \cup {key} |->
                                   IF k = key THEN detail ELSE st.details[k]],
                   !.retries = 0]

\* line 422, get_universe_planet: the lookup answers 200
MetaOk ==
    /\ pc = "meta"
    /\ \E name \in MetaNames : st' = StoreDetail(name)
    /\ pc' = "loop"
    /\ UNCHANGED <<planets_data, planet_details, now, parse_out, est_pins, est_out>>

\* lines 155-167: HTTP 420, sleep and send the same request again
RateLimited ==
    /\ pc \in RequestPositions
    /\ st.retries < MaxRetries
    /\ st' = [st EXCEPT !.retries = @ + 1]
    /\ UNCHANGED <<planets_data, planet_details, now, parse_out, est_pins, est_out, pc>>

\* lines 168-170: HTTP 404 is an empty answer where allow_404 is set (the
\* universe lookup), and sys.exit(1) elsewhere
NotFound ==
    /\ pc \in RequestPositions
    /\ IF pc = "meta"
       THEN /\ st' = StoreDetail("")
            /\ pc' = "loop"
       ELSE /\ st' = st
            /\ pc' = "exited"
    /\ UNCHANGED <<planets_data, planet_details, now, parse_out, est_pins, est_out>>

\* line 170: any other HTTP error status
HttpError ==
    /\ pc \in RequestPositions
    /\ pc' = "exited"
    /\ UNCHANGED <<planets_data, planet_details, now, parse_out, est_pins, est_out, st>>

\* line 427
ParseFetched ==
    /\ pc = "parse"
    /\ parse_out' = parse_pi_status(ListOf(st.planets), DetailsDict(st.details), now)
    /\ pc' = IF parse_out'.st = "returned" THEN "returned" ELSE "raised"
    /\ UNCHANGED <<planets_data, planet_details, now, est_pins, est_out, st>>

NextStatus ==
    \/ PlanetsFirstOk
    \/ PlanetsNextOk
    \/ LoopStep
    \/ DetailOk
    \/ MetaOk
    \/ RateLimited
    \/ NotFound
    \/ HttpError
    \/ ParseFetched

SpecStatus == InitStatus /\ [][NextStatus]_vars

----------------------------------------------------------------------------
(* Properties of parse_pi_status, stated over the call's arguments, the    *)
(* list it returned and the reason lists it built.                         *)

Returned == parse_out.st = "returned"

\* the instant an RFC3339 string denotes
InstantOf(expiry) == expiry.wall - (IF expiry.zone = "+01:00" THEN 3600 ELSE 0)

\* the detail behind the i-th returned record
InputDetail(i) ==
    DetailOf(DetailsMap(planet_details), WellFormed(planets_data.l)[i].planet_id)

\* C1: parse_pi_status never raises: whatever the shape of planets_data and
\* planet_details, the call ends by returning a list.
C1_NeverRaises == parse_out.st # "raised"

\* C2: every extractor entry is running iff its expiry parses and lies
\* strictly after now, expired iff it parses and lies at or before now, and
\* idle with null hours_remaining iff the expiry is absent or does not parse.
C2_StatusByExpiry ==
    Returned =>
        \A i \in DOMAIN parse_out.recs :
            \A j \in DOMAIN parse_out.recs[i].extractors :
                LET e == parse_out.recs[i].extractors[j]
                    parses == e.expiry.k = "ts"
                IN  /\ e.status = "running" <=> (parses /\ InstantOf(e.expiry) > now)
                    /\ e.status = "expired" <=> (parses /\ InstantOf(e.expiry) <= now)
                    /\ (e.status = "idle" /\ e.hours_remaining = None) <=> ~parses

\* an entry the attention rule flags: expired, or running with at most 6.00
\* hours left
Flagged(e) ==
    \/ e.status = "expired"
    \/ e.status = "running" /\ e.hours_remaining.v <= 600

\* the message a flagged entry stands for
MessageOf(e) ==
    IF e.status = "expired" THEN "Extractor already expired"
    ELSE "Extractor expires in " \o FmtF2(e.hours_remaining.v) \o "h"

\* C3: an extractor entry contributes an attention reason iff it is expired,
\* or running with hours_remaining <= 6.0 (6.00 included); an idle entry
\* contributes none.  The reasons collected by the pin loop are exactly the
\* messages of the flagged entries, one each, in entry order.
C3_ExtractorAttention ==
    Returned =>
        \A i \in DOMAIN parse_out.recs :
            LET es == parse_out.recs[i].extractors
                flagged == SelectSeq(es, Flagged)
            IN  /\ parse_out.locals[i].after_pins =
                       [k \in 1..Len(flagged) |-> MessageOf(flagged[k])]
                /\ \A j \in DOMAIN es : es[j].status = "idle" => ~Flagged(es[j])

\* C3 witness: a running entry with exactly 6.00 hours left has contributed
\* its reason.
C3_Witness ==
    /\ Returned
    /\ \E i \in DOMAIN parse_out.recs :
          /\ \E j \in DOMAIN parse_out.recs[i].extractors :
                /\ parse_out.recs[i].extractors[j].status = "running"
                /\ parse_out.recs[i].extractors[j].hours_remaining = F2(600)
          /\ "Extractor expires in 6.0h" \in Range(parse_out.locals[i].after_pins)

\* the storage message of a record
StorageMessage(rec) == "Storage/Launchpad at " \o FmtF2(rec.storage_fill_pct.v) \o "%"

StorageFlagged(rec) == rec.storage_fill_pct.t # "none" /\ rec.storage_fill_pct.v >= 8000

\* C5: needs_attention is true iff a reason was collected (a flagged
\* extractor or a triggered storage fill); action_required is "none" exactly
\* when needs_attention is false and the "; "-join of the de-duplicated
\* reasons otherwise; a colony with no extraction descriptor and no pin of a
\* known-capacity type has needs_attention false and action_required "none".
C5_NeedsAttention ==
    Returned =>
        \A i \in DOMAIN parse_out.recs :
            LET rec == parse_out.recs[i]
                pins == Elems(InputDetail(i).pins)
                collected == \/ \E j \in DOMAIN rec.extractors : Flagged(rec.extractors[j])
                             \/ StorageFlagged(rec)
                quiet == \A k \in DOMAIN pins :
                             pins[k].shape = "dict" =>
                                 /\ pins[k].extractor.k # "dict"
                                 /\ ~(IsNumber(pins[k].type_id) /\
                                      pins[k].type_id.v \in {2524, 2544, 2256})
            IN  /\ rec.needs_attention <=> collected
                /\ rec.needs_attention <=> parse_out.locals[i].attention_reasons # <<>>
                /\ rec.action_required = "none" <=> ~rec.needs_attention
                /\ rec.needs_attention =>
                       rec.action_required =
                           JoinWith("; ", parse_out.locals[i].unique_reasons)
                /\ quiet => ~rec.needs_attention /\ rec.action_required = "none"

\* C5 witness: a record that needs attention for two different reasons, and
\* in the same call nothing else: its action_required joins both.
C5_Witness ==
    /\ Returned
    /\ \E i \in DOMAIN parse_out.recs :
          /\ parse_out.recs[i].needs_attention
          /\ Len(parse_out.locals[i].unique_reasons) = 2
          /\ parse_out.recs[i].action_required # "none"

\* C6: the reason "Storage/Launchpad at {fill}%" is among a record's reasons
\* iff storage_fill_pct is non-null and >= 80.0 (80.0 included).
C6_StorageAttention ==
    Returned =>
        \A i \in DOMAIN parse_out.recs :
            StorageMessage(parse_out.recs[i]) \in Range(parse_out.locals[i].unique_reasons)
                <=> StorageFlagged(parse_out.recs[i])

\* C6 witness: a fill of exactly 80.0 has put its reason in the list.
C6_Witness ==
    /\ Returned
    /\ \E i \in DOMAIN parse_out.recs :
          /\ parse_out.recs[i].storage_fill_pct = F2(8000)
          /\ "Storage/Launchpad at 80.0%" \in Range(parse_out.locals[i].unique_reasons)

\* index of the first occurrence of x in xs
FirstIndex(xs, x) == CHOOSE k \in DOMAIN xs : xs[k] = x /\ \A m \in 1..(k - 1) : xs[m] # x

\* C7: the reasons joined into action_required hold no string twice, hold
\* every collected reason, and are ordered by first occurrence; the collected
\* reasons are the extractor reasons in pin order, then the storage reason.
C7_ReasonOrder ==
    Returned =>
        \A i \in DOMAIN parse_out.recs :
            LET rec == parse_out.recs[i]
                a == parse_out.locals[i].attention_reasons
                u == parse_out.locals[i].unique_reasons
                flagged == SelectSeq(rec.extractors, Flagged)
            IN  /\ \A k, m \in DOMAIN u : k # m => u[k] # u[m]
                /\ Range(u) = Range(a)
                /\ \A k, m \in DOMAIN u :
                       k < m => FirstIndex(a, u[k]) < FirstIndex(a, u[m])
                /\ a = [k \in 1..Len(flagged) |-> MessageOf(flagged[k])] \o
                       (IF StorageFlagged(rec) THEN <<StorageMessage(rec)>> ELSE <<>>)
                /\ rec.action_required = IF u = <<>> THEN "none" ELSE JoinWith("; ", u)

\* C7 witness: a reason collected twice, with another one between the two
\* occurrences, shows once, before the other.
C7_Witness ==
    /\ Returned
    /\ \E i \in DOMAIN parse_out.recs :
          LET a == parse_out.locals[i].attention_reasons
              u == parse_out.locals[i].unique_reasons
          IN  /\ Len(a) = 3 /\ a[1] = a[3] /\ a[1] # a[2]
              /\ u = <<a[1], a[2]>>

\* every way to supply the routes of a colony again: permuted, and with
\* routes repeated
Resupplied(routes) ==
    {rs \in SeqsUpTo(Range(routes), Len(routes) + 1) : Range(rs) = Range(routes)}

\* C8: for every factory pin with an integer pin_id the rendered input and
\* output lists are the same for every permutation and every duplication of
\* the colony's routes.
C8_RouteOrderIndependent ==
    Returned =>
        \A i \in DOMAIN parse_out.recs :
            \A rs \in Resupplied(Elems(InputDetail(i).routes)) :
                Factories(Elems(InputDetail(i).pins), rs) = parse_out.recs[i].factories

\* C9: parse_pi_status returns one record per mapping-shaped entry of
\* planets_data, in order, and none for any other entry; a colony whose
\* detail is absent or empty gets a record with no extractors, no factories,
\* a null storage_fill_pct and the name "Planet {id}".
C9_OneRecordPerColony ==
    (parse_out.st # "pending" /\ planets_data.k # "noniter") =>
        LET ps == WellFormed(planets_data.l)
        IN  /\ Returned
            /\ Len(parse_out.recs) = Len(ps)
            /\ \A i \in DOMAIN ps :
                  /\ parse_out.recs[i].planet_id = ps[i].planet_id
                  /\ InputDetail(i) = EmptyDetail =>
                        /\ parse_out.recs[i].extractors = <<>>
                        /\ parse_out.recs[i].factories = <<>>
                        /\ parse_out.recs[i].storage_fill_pct = None
                        /\ parse_out.recs[i].planet_name =
                               "Planet " \o PyStr(ps[i].planet_id)

----------------------------------------------------------------------------
(* Properties of estimate_storage_fill_pct. *)

\* the pins whose type_id is in the storage-capacity table
KnownCapacity(pins) ==
    {k \in DOMAIN pins :
        /\ pins[k].shape = "dict"
        /\ IsNumber(pins[k].type_id)
        /\ pins[k].type_id.v \in {2524, 2544, 2256}}

\* sum of the numeric amounts / capacity * 100 clamped to 100.0, in the
\* hundredths of a percent the function reports
ClampedRatio(pin) ==
    Min2(10000, RoundDiv(SumAmounts(pin.contents.l) * 10000,
                         IF pin.type_id.v = 2256 THEN 12000 ELSE 10000))

\* C4: estimate_storage_fill_pct returns null when no pin's type_id is in
\* the storage-capacity table, and otherwise the maximum over the pins whose
\* type_id is in the table of their clamped fill ratio, never above 100.0.
C4_StorageFill ==
    est_out.st # "pending" =>
        /\ est_out.st = "returned"
        /\ IF KnownCapacity(est_pins) = {}
           THEN est_out.recs[1] = None
           ELSE /\ est_out.recs[1].t = "f2"
                /\ est_out.recs[1].v <= 10000
                /\ \E k \in KnownCapacity(est_pins) :
                      est_out.recs[1].v = ClampedRatio(est_pins[k])
                /\ \A k \in KnownCapacity(est_pins) :
                      ClampedRatio(est_pins[k]) <= est_out.recs[1].v

----------------------------------------------------------------------------
(* Properties of get_pi_status. *)

\* C10: in get_pi_status a failed lookup (colony list, colony detail or
\* location name: 404, 420 or another HTTP error) degrades to an empty
\* result and never aborts the caller: the process is never terminated.
C10_NeverAborts == pc # "exited"

----------------------------------------------------------------------------
(* Properties of the route scan. *)

\* an integer of the interchange format: a whole number, not true or false
Integer(x) == x.t = "int"

\* the pin a route names on one side
SideOf(route, side) ==
    IF side = "source" THEN route.source_pin_id ELSE route.destination_pin_id

\* the routes that add their commodity on one side: mappings whose pin on
\* that side and whose content type are both integers
Adding(routes, side) ==
    LET adds(r) == /\ r.shape = "dict"
                   /\ Integer(SideOf(r, side)) /\ Integer(r.content_type_id)
    IN  SelectSeq(routes, adds)

\* the commodities the adding routes carry on one side of the pin key
CarriedAt(routes, side, key) ==
    LET at(r) == SideOf(r, side) = key
        rs == SelectSeq(Adding(routes, side), at)
    IN  [k \in 1..Len(rs) |-> rs[k].content_type_id]

\* a map holds, per pin, exactly what the adding routes of a side carry
FilledBy(map, routes, side) ==
    /\ \A e \in DOMAIN map : map[e].vals = CarriedAt(routes, side, map[e].key)
    /\ \A r \in DOMAIN Adding(routes, side) :
          \E e \in DOMAIN map : map[e].key = SideOf(Adding(routes, side)[r], side)

\* C11: after the route scan the outgoing map holds, per source pin, the
\* commodities of exactly the routes whose source_pin_id and content_type_id
\* are both integers, and the incoming map, per destination pin, those of
\* exactly the routes whose destination_pin_id and content_type_id are both
\* integers: each side on its own condition, and nothing from a route whose
\* content type is not an integer.
C11_PerSideConditions ==
    Returned =>
        \A i \in DOMAIN parse_out.recs :
            LET routes == Elems(InputDetail(i).routes)
            IN  /\ FilledBy(parse_out.locals[i].outgoing_by_pin, routes, "source")
                /\ FilledBy(parse_out.locals[i].incoming_by_pin, routes,
                            "destination")

=============================================================================
